---- MODULE Spec2Model ----
(***************************************************************************)
(* A model of bmsutils: the virtual-path helpers, the folder identity      *)
(* (crc32), the songdata.db relocation engine (db_move_folder,             *)
(* db_delete_folder, db_add_root_folder) and the orchestrating operations  *)
(* (add_root_folder, move_folder, delete_folder) of src/bmsutils.py.       *)
(*                                                                         *)
(* Strings are sequences of one-character strings.  os.path is ntpath and  *)
(* Path is a Windows path (the platform of src/tests/test_bms_path_*.py    *)
(* and of the "\\" separator main.py asks for); UNC paths are outside the  *)
(* modelled universe.                                                      *)
(***************************************************************************)
EXTENDS Integers, Sequences, FiniteSets, TLC

\* ------------------------------------------------------------------
\* Bounds
\* ------------------------------------------------------------------
\* the depth of recursive calls after which Python raises RecursionError
\* (sys.getrecursionlimit() frames in the program, a few in the model)
MaxRecursion == 3

\* the number of operations of one session
MaxOps == 1

\* ------------------------------------------------------------------
\* Characters and strings
\* ------------------------------------------------------------------
\* F applied to the value of e: e is evaluated once, however often F uses it
Bind(e, F(_)) == CHOOSE y \in {F(v) : v \in {e}} : TRUE

\* the sequence with the elements of the function f on 1..n
AsSeq(f) == Bind(f, LAMBDA g : SubSeq(g, 1, Len(g)))

BS == "\\"
FS == "/"
Seps == {BS, FS}

StartsWith(s, pre) ==
    /\ Len(pre) <= Len(s)
    /\ SubSeq(s, 1, Len(pre)) = pre

\* s[:-1]
DropLast(s) == SubSeq(s, 1, Len(s) - 1)

\* s[i:] for a 0-based i
From(s, i) == SubSeq(s, i + 1, Len(s))

RECURSIVE RStripSeps(_)
\* str.rstrip of both separators
RStripSeps(s) ==
    IF s # <<>> /\ s[Len(s)] \in Seps THEN RStripSeps(DropLast(s)) ELSE s

RECURSIVE LastSepIndex(_, _)
\* the i of ntpath.split: the length of the prefix of p that ends with its last separator
LastSepIndex(p, i) ==
    IF i > 0 /\ p[i] \notin Seps THEN LastSepIndex(p, i - 1) ELSE i

\* str.replace("/", "\\")
ToBackslashes(s) == AsSeq([i \in 1..Len(s) |-> IF s[i] = FS THEN BS ELSE s[i]])

RECURSIVE Concat(_)
Concat(ss) == IF ss = <<>> THEN <<>> ELSE Head(ss) \o Concat(Tail(ss))

RECURSIVE JoinWith(_, _)
\* sep.join(parts)
JoinWith(parts, sep) ==
    IF parts = <<>> THEN <<>>
    ELSE IF Len(parts) = 1 THEN parts[1]
    ELSE parts[1] \o <<sep>> \o JoinWith(Tail(parts), sep)

\* ------------------------------------------------------------------
\* ntpath
\* ------------------------------------------------------------------
\* ntpath.splitroot, for drive-letter and driveless strings
splitroot(p) ==
    LET hasDrive == Len(p) >= 2 /\ p[2] = ":"
        drive == IF hasDrive THEN SubSeq(p, 1, 2) ELSE <<>>
        rest == IF hasDrive THEN From(p, 2) ELSE p
        hasRoot == rest # <<>> /\ rest[1] \in Seps
    IN  [drive |-> drive,
         root |-> IF hasRoot THEN <<rest[1]>> ELSE <<>>,
         tail |-> IF hasRoot THEN Tail(rest) ELSE rest]

\* ntpath.split
ntsplit(p) ==
    LET sr == splitroot(p)
        i == LastSepIndex(sr.tail, Len(sr.tail))
    IN  [head |-> sr.drive \o sr.root \o RStripSeps(SubSeq(sr.tail, 1, i)),
         tail |-> From(sr.tail, i)]

dirname(p) == ntsplit(p).head

basename(p) == ntsplit(p).tail

\* ntpath.isabs: a leading separator, or ":\" after the drive letter
isabs(s) ==
    LET t == ToBackslashes(SubSeq(s, 1, IF Len(s) < 3 THEN Len(s) ELSE 3))
    IN  \/ StartsWith(t, <<BS>>)
        \/ (Len(t) >= 3 /\ SubSeq(t, 2, 3) = <<":", BS>>)

\* ------------------------------------------------------------------
\* pathlib: a path is its drive, whether it has a root, and its parts
\* ------------------------------------------------------------------
RECURSIVE SplitSegs(_, _)
\* the segments of s between separators; cur is the segment being read
SplitSegs(s, cur) ==
    IF s = <<>> THEN (IF cur = <<>> THEN <<>> ELSE <<cur>>)
    ELSE IF Head(s) \in Seps
         THEN (IF cur = <<>> THEN <<>> ELSE <<cur>>) \o SplitSegs(Tail(s), <<>>)
         ELSE SplitSegs(Tail(s), Append(cur, Head(s)))

\* Path(s): empty and "." segments are dropped, ".." is kept
Path(s) ==
    LET sr == splitroot(s)
        segs == SplitSegs(sr.tail, <<>>)
    IN  [drv |-> sr.drive,
         root |-> sr.root # <<>>,
         parts |-> SelectSeq(segs, LAMBDA g : g # <<".">>)]

\* Path.is_absolute
PathIsAbsolute(p) == p.drv # <<>> /\ p.root

\* a / b
PathJoin(a, b) ==
    IF b.drv # <<>> /\ b.drv # a.drv THEN b
    ELSE IF b.root THEN [drv |-> a.drv, root |-> TRUE, parts |-> b.parts]
    ELSE [drv |-> a.drv, root |-> a.root, parts |-> a.parts \o b.parts]

\* Path.parent
PathParent(p) ==
    IF p.parts = <<>> THEN p ELSE [p EXCEPT !.parts = DropLast(p.parts)]

\* Path.is_relative_to
PathIsRelativeTo(p, base) ==
    /\ p.drv = base.drv
    /\ p.root = base.root
    /\ StartsWith(p.parts, base.parts)

\* the parts of Path.relative_to (defined when PathIsRelativeTo)
RelativeParts(p, base) == From(p.parts, Len(base.parts))

\* str(Path)
PathStr(p) ==
    p.drv \o (IF p.root THEN <<BS>> ELSE <<>>) \o
    (IF p.parts = <<>> /\ p.drv = <<>> /\ ~p.root THEN <<".">> ELSE JoinWith(p.parts, BS))

RECURSIVE NormParts(_, _)
\* ntpath.normpath on the parts of a rooted path: ".." removes the part before it
NormParts(parts, acc) ==
    IF parts = <<>> THEN acc
    ELSE IF Head(parts) = <<".", ".">>
         THEN NormParts(Tail(parts), IF acc = <<>> THEN acc ELSE DropLast(acc))
         ELSE NormParts(Tail(parts), Append(acc, Head(parts)))

\* ------------------------------------------------------------------
\* crc32: the folder identity
\* ------------------------------------------------------------------
HexDigits == <<"0", "1", "2", "3", "4", "5", "6", "7", "8", "9", "a", "b", "c", "d", "e", "f">>

HexValue(c) == CHOOSE v \in 0..15 : HexDigits[v + 1] = c

\* bit i (1 = least significant) of a natural number
BitOf(n, i) == (n \div (2 ^ (i - 1))) % 2

\* a 32-bit register from 8 hexadecimal digits, as the sequence of its bits (the first is the least significant)
RegOfHex(h) ==
    AsSeq([i \in 1..32 |-> BitOf(HexValue(h[8 - ((i - 1) \div 4)]), ((i - 1) % 4) + 1)])

ROOT_FOLDER_CRC == <<"e", "2", "9", "7", "7", "1", "7", "0">>

CRC32_POLYNOMIAL == RegOfHex(<<"e", "d", "b", "8", "8", "3", "2", "0">>)

CrcInit == RegOfHex(<<"f", "f", "f", "f", "f", "f", "f", "f">>)

NUL == "NUL"

\* the letter e with an acute accent (U+00E9)
EAcute == "e_acute"

\* str.encode(): the UTF-8 bytes of one character
Utf8(c) ==
    CASE c = NUL -> <<0>>
      [] c = "." -> <<46>>
      [] c = FS -> <<47>>
      [] c = ":" -> <<58>>
      [] c = BS -> <<92>>
      [] c = "a" -> <<97>>
      [] c = "b" -> <<98>>
      [] c = "c" -> <<99>>
      [] c = "d" -> <<100>>
      [] c = "o" -> <<111>>
      [] c = "s" -> <<115>>
      [] c = "x" -> <<120>>
      [] c = "y" -> <<121>>
      [] c = "z" -> <<122>>
      [] c = EAcute -> <<195, 169>>

RECURSIVE Encode(_)
Encode(s) == IF s = <<>> THEN <<>> ELSE Utf8(Head(s)) \o Encode(Tail(s))

\* every byte XORed as the unsigned value it has
ByteReg_unsigned(b) ==
    AsSeq([i \in 1..32 |-> IF i <= 8 THEN BitOf(b, i) ELSE 0])

\* the int a byte is XORed as: b below 128, (b - 256) & 0xFFFFFFFF from 128 on
ByteReg(b) ==
    AsSeq([i \in 1..32 |-> IF i <= 8 THEN BitOf(b, i) ELSE IF b >= 128 THEN 1 ELSE 0])

\* x ^ y, bit by bit
XorReg(x, y) ==
    Bind(x, LAMBDA xv : Bind(y, LAMBDA yv : AsSeq([i \in 1..32 |-> (xv[i] + yv[i]) % 2])))

\* x >> 1
ShrReg(x) == Append(Tail(x), 0)

\* one of the 8 rounds of a byte
CrcRound(crc) ==
    Bind(crc, LAMBDA c : IF c[1] = 1 THEN XorReg(ShrReg(c), CRC32_POLYNOMIAL) ELSE ShrReg(c))

RECURSIVE CrcRounds(_, _)
CrcRounds(crc, n) ==
    IF n = 0 THEN crc
    ELSE IF n = 1 THEN CrcRound(crc)
    ELSE Bind(CrcRounds(crc, n \div 2), LAMBDA half : CrcRounds(half, n - n \div 2))

RECURSIVE CrcBytes(_, _)
\* the register after the bytes bs
CrcBytes(crc, bs) ==
    IF bs = <<>> THEN crc
    ELSE IF Len(bs) = 1 THEN CrcRounds(XorReg(crc, ByteReg(Head(bs))), 8)
    ELSE Bind(Len(bs) \div 2, LAMBDA h :
         Bind(CrcBytes(crc, SubSeq(bs, 1, h)), LAMBDA next :
             CrcBytes(next, SubSeq(bs, h + 1, Len(bs)))))

RECURSIVE StripZeros(_)
StripZeros(h) == IF Len(h) > 1 /\ Head(h) = "0" THEN StripZeros(Tail(h)) ELSE h

\* hex(~crc & 0xFFFFFFFF)[2:]
HexOfComplement(crc) ==
    LET nib(k) == \* the k-th digit from the left
            LET lo == 4 * (8 - k) + 1
            IN  (1 - crc[lo]) + 2 * (1 - crc[lo + 1]) + 4 * (1 - crc[lo + 2]) + 8 * (1 - crc[lo + 3])
    IN  StripZeros(AsSeq([k \in 1..8 |-> HexDigits[nib(k) + 1]]))

\* lines 123-137 of crc32: the checksum of path_str + "\\\0"
crc32_compute(path_str) ==
    Bind(Encode(path_str \o <<BS, NUL>>),
         LAMBDA bytes : Bind(CrcBytes(CrcInit, bytes), LAMBDA reg : HexOfComplement(reg)))

\* the names of the folders of the modelled library
Names == {"a", "b", "c", "d", "x", "y", "z"}

\* the relative path strings of at most three segments
ShortStrs ==
    LET one == {<<n>> : n \in Names}
        two == {p \o <<BS>> \o q : p \in one, q \in one}
        three == {p \o <<BS>> \o q : p \in two, q \in one}
    IN  one \cup two \cup three

\* the checksums of the short strings, computed once
CrcTable == [s \in ShortStrs |-> crc32_compute(s)]

\* the checksum of a string: looked up when it is a short one, computed otherwise
crc32_of_str(path_str) ==
    IF path_str \in ShortStrs THEN CrcTable[path_str] ELSE crc32_compute(path_str)

\* ------------------------------------------------------------------
\* The installation and the folder identity of a path
\* ------------------------------------------------------------------
\* crc_calc.oraja_path: where beatoraja is installed
BMSPATH == Path(<<"c", ":", BS, "o">>)

\* os.getcwd() of the process (the installation directory)
Cwd == BMSPATH

\* to_absolute of crc32, which is _relative_at
to_absolute(p) == IF PathIsAbsolute(p) THEN p ELSE PathJoin(BMSPATH, p)

\* the length of the longest common prefix of two part sequences
RECURSIVE CommonLen(_, _)
CommonLen(a, b) ==
    IF a # <<>> /\ b # <<>> /\ Head(a) = Head(b) THEN 1 + CommonLen(Tail(a), Tail(b)) ELSE 0

\* os.path.relpath(path, start) of two absolute paths on one drive
relparts(pathParts, startParts) ==
    LET pp == NormParts(pathParts, <<>>)
        sp == NormParts(startParts, <<>>)
        i == CommonLen(pp, sp)
        rl == [k \in 1..(Len(sp) - i) |-> <<".", ".">>] \o From(pp, i)
    IN  IF rl = <<>> THEN <<".">> ELSE JoinWith(rl, BS)

\* crc32 comparing the parent of each root directory as it is listed, a
\* relative one not resolved against bmspath
crc32_roots_as_listed(path, rootdirs) ==
    LET path_p == to_absolute(Path(path))
    IN  IF \E k \in DOMAIN rootdirs : PathParent(Path(rootdirs[k])) = path_p
        THEN ROOT_FOLDER_CRC
        ELSE IF PathIsRelativeTo(path_p, BMSPATH)
             THEN crc32_of_str(relparts(path_p.parts, BMSPATH.parts))
             ELSE crc32_of_str(path)

\* crc32(path, rootdirs, bmspath); rootdirs is the sequence of the paths of the root folders
crc32(path, rootdirs) ==
    LET path_p == to_absolute(Path(path))
    IN  IF \E k \in DOMAIN rootdirs : PathParent(to_absolute(Path(rootdirs[k]))) = path_p
        THEN ROOT_FOLDER_CRC
        ELSE IF PathIsRelativeTo(path_p, BMSPATH)
             THEN crc32_of_str(relparts(path_p.parts, BMSPATH.parts))
             ELSE crc32_of_str(path)

\* ------------------------------------------------------------------
\* BmsPath helpers.  A helper that can raise returns [err, path].
\* ------------------------------------------------------------------
NoError == "none"

is_absolute(path) == StartsWith(path, <<FS>>) \/ isabs(path)

\* check_bms_path: the assertion on the trailing separator
check_bms_path(path) == path # <<>> /\ path[Len(path)] \in Seps

\* Path.resolve of an absolute path without symbolic links: ".." steps are taken
Resolve(p) == [p EXCEPT !.parts = NormParts(p.parts, <<>>)]

\* Path.as_posix
PathAsPosix(p) ==
    p.drv \o (IF p.root THEN <<FS>> ELSE <<>>) \o
    (IF p.parts = <<>> /\ p.drv = <<>> /\ ~p.root THEN <<".">> ELSE JoinWith(p.parts, FS))

\* the "arbitrary path to serve as a base directory for resolving" of bms_path_make
root_dir == Path(<<"c", ":", FS>>)

\* the relative path with the given parts
RelativePath(parts) == [drv |-> <<>>, root |-> FALSE, parts |-> parts]

\* the last lines of bms_path_make without the str.replace("/", "\\")
MakeStr_without_replace(p, separator) ==
    LET posix == PathAsPosix(p)
        path_as_str == IF posix = <<".">> THEN <<>> ELSE posix
    IN  path_as_str \o <<separator>>

\* the last lines of bms_path_make: the string of the path it has settled on
MakeStr(p, separator) ==
    LET posix == PathAsPosix(p)
        path_as_str == IF posix = <<".">> THEN <<>> ELSE posix
    IN  (IF separator = BS THEN ToBackslashes(path_as_str) ELSE path_as_str) \o <<separator>>

\* bms_path_make(path, separator, crc_calc) for a path without a drive-relative part: [err, path]
bms_path_make(path, separator) ==
    IF PathIsAbsolute(path)
    THEN Bind(Resolve(path), LAMBDA r :
             [err |-> NoError,
              path |-> IF PathIsRelativeTo(r, BMSPATH)
                       THEN MakeStr(RelativePath(RelativeParts(r, BMSPATH)), separator)
                       ELSE MakeStr(r, separator)])
    ELSE Bind(Resolve(PathJoin(root_dir, path)), LAMBDA r :
             IF RelativeParts(r, root_dir) = <<>>
             THEN [err |-> "ValueError: Invalid path", path |-> <<>>]
             ELSE [err |-> NoError,
                   path |-> MakeStr(RelativePath(RelativeParts(r, root_dir)), separator)])

bms_path_absolute(path) ==
    IF is_absolute(path) THEN Path(path) ELSE PathJoin(BMSPATH, Path(DropLast(path)))

bms_path_crc32(path, rootdirs) == crc32(DropLast(path), rootdirs)

\* bms_path_dirname ending its result with "\\" whatever separator the path ends with
bms_path_dirname_backslash(path) ==
    LET dn == dirname(DropLast(path))
    IN  IF DropLast(path) = dn THEN [err |-> "LastDirectoryError", path |-> <<>>]
        ELSE IF dn = <<BS>> THEN [err |-> NoError, path |-> dn]
        ELSE [err |-> NoError, path |-> Append(dn, BS)]

\* bms_path_dirname raising LastDirectoryError one level early on a drive
bms_path_dirname_stops_below_drive(path) ==
    LET sep == path[Len(path)]
        dn == dirname(DropLast(path))
    IN  IF DropLast(path) = dn \/ (Len(dn) = 3 /\ dn[2] = ":")
        THEN [err |-> "LastDirectoryError", path |-> <<>>]
        ELSE IF dn = <<sep>> THEN [err |-> NoError, path |-> dn]
        ELSE [err |-> NoError, path |-> Append(dn, sep)]

bms_path_dirname(path) ==
    LET sep == path[Len(path)]
        dn == dirname(DropLast(path))
    IN  IF DropLast(path) = dn THEN [err |-> "LastDirectoryError", path |-> <<>>]
        ELSE IF dn = <<sep>> THEN [err |-> NoError, path |-> dn]
        ELSE [err |-> NoError, path |-> Append(dn, sep)]

bms_path_basename(path) == basename(DropLast(path))

\* path_to_str(Path.relative_to, sep)
path_to_str(parts, sep) ==
    LET path_as_str == IF parts = <<>> THEN <<".">> ELSE JoinWith(parts, FS)
    IN  IF sep = BS THEN ToBackslashes(path_as_str) ELSE path_as_str

\* bms_path_graft without the comparison of is_absolute(path) and is_absolute(src)
bms_path_graft_unchecked(path, src, dst) ==
    LET p == Path(DropLast(path))
        s == Path(DropLast(src))
        sep == dst[Len(dst)]
    IN  IF ~PathIsRelativeTo(p, s)
        THEN [err |-> "ValueError: not in the subpath", path |-> <<>>]
        ELSE LET relative == path_to_str(RelativeParts(p, s), sep)
             IN  IF relative = <<".">> THEN [err |-> NoError, path |-> dst]
                 ELSE [err |-> NoError, path |-> dst \o relative \o <<sep>>]

bms_path_graft(path, src, dst) ==
    LET p == Path(DropLast(path))
        s == Path(DropLast(src))
        sep == dst[Len(dst)]
    IN  IF is_absolute(path) # is_absolute(src)
        THEN [err |-> "ValueError: absolute and relative", path |-> <<>>]
        ELSE IF ~PathIsRelativeTo(p, s)
        THEN [err |-> "ValueError: not in the subpath", path |-> <<>>]
        ELSE LET relative == path_to_str(RelativeParts(p, s), sep)
             IN  IF relative = <<".">> THEN [err |-> NoError, path |-> dst]
                 ELSE [err |-> NoError, path |-> dst \o relative \o <<sep>>]

\* ------------------------------------------------------------------
\* The index: the folder table and the song table, each a sequence of rows
\* in insertion order.  An engine operation returns
\* [folder, song, err, ret]: the tables as it leaves them, the exception it
\* raised (NoError if none) and its return value.
\* ------------------------------------------------------------------
FolderRow(path, parent) == [path |-> path, parent |-> parent, title |-> bms_path_basename(path)]

\* SELECT ... FROM folder WHERE path = ?
RowsAt(folder, path) == SelectSeq(folder, LAMBDA r : r.path = path)

\* SELECT path FROM folder WHERE parent = ?
ChildPaths(folder, crc) ==
    Bind(SelectSeq(folder, LAMBDA r : r.parent = crc), LAMBDA rows :
        AsSeq([k \in DOMAIN rows |-> rows[k].path]))

\* SELECT path FROM song, without the WHERE clause
SongPaths_of_every_folder(song, crc) == AsSeq([k \in DOMAIN song |-> song[k].path])

\* SELECT path FROM song WHERE folder = ?
SongPaths(song, crc) ==
    Bind(SelectSeq(song, LAMBDA r : r.folder = crc), LAMBDA rows :
        AsSeq([k \in DOMAIN rows |-> rows[k].path]))

\* BmsCrc32Calculator.from_songdata_db: SELECT path FROM folder WHERE parent = "e2977170"
RootPathsOf(folder) == ChildPaths(folder, ROOT_FOLDER_CRC)

\* db_add_root_folder without its INSERT
db_add_root_folder_never_inserts(folder, song, path) ==
    [folder |-> folder, song |-> song,
     err |-> IF check_bms_path(path) THEN NoError ELSE "AssertionError", ret |-> "None"]

\* db_add_root_folder
db_add_root_folder(folder, song, path) ==
    IF ~check_bms_path(path)
    THEN [folder |-> folder, song |-> song, err |-> "AssertionError", ret |-> "None"]
    ELSE [folder |-> IF Len(RowsAt(folder, path)) = 0
                     THEN Append(folder, FolderRow(path, ROOT_FOLDER_CRC))
                     ELSE folder,
          song |-> song, err |-> NoError, ret |-> "None"]

RECURSIVE WalkParents(_, _, _, _, _)
\* the while loop of find_and_create_parents: [err, parent_crc, rows], rows the rows_to_create
WalkParents(folder, rootdirs, current_folder, parent_crc, rows_to_create) ==
    Bind(bms_path_dirname(current_folder), LAMBDA up :
        IF up.err # NoError
        THEN [err |-> "LastDirectoryError", parent_crc |-> parent_crc, rows |-> rows_to_create]
        ELSE Bind(bms_path_crc32(up.path, rootdirs), LAMBDA crc :
             Bind(IF parent_crc = <<>> THEN crc ELSE parent_crc, LAMBDA pc :
             Bind(Len(RowsAt(folder, up.path)), LAMBDA n :
                 IF n = 1 THEN [err |-> NoError, parent_crc |-> pc, rows |-> rows_to_create]
                 ELSE IF n > 1
                 THEN [err |-> "ValueError: multiple entries", parent_crc |-> pc,
                       rows |-> rows_to_create]
                 ELSE Bind(Append(rows_to_create, [path |-> up.path, crc |-> crc]), LAMBDA rows :
                          WalkParents(folder, rootdirs, up.path, pc, rows))))))

\* the INSERT of find_and_create_parents for one saved entry
PlaceholderRow(create_folder, create_crc) == FolderRow(create_folder, create_crc)

\* find_and_create_parents returning the identity of the last entry it saved,
\* where the code returns the identity of the parent of dest
find_and_create_parents_last_saved(folder, rootdirs, dest) ==
    Bind(WalkParents(folder, rootdirs, dest, <<>>, <<>>), LAMBDA w :
        [err |-> w.err,
         parent_crc |-> IF w.rows = <<>> THEN w.parent_crc ELSE w.rows[Len(w.rows)].crc,
         folder |-> IF w.err = NoError
                    THEN folder \o AsSeq([k \in DOMAIN w.rows |->
                                            PlaceholderRow(w.rows[k].path, w.rows[k].crc)])
                    ELSE folder])

\* find_and_create_parents: [err, parent_crc, folder]
find_and_create_parents(folder, rootdirs, dest) ==
    Bind(WalkParents(folder, rootdirs, dest, <<>>, <<>>), LAMBDA w :
        [err |-> w.err,
         parent_crc |-> w.parent_crc,
         folder |-> IF w.err = NoError
                    THEN folder \o AsSeq([k \in DOMAIN w.rows |->
                                            PlaceholderRow(w.rows[k].path, w.rows[k].crc)])
                    ELSE folder])

\* os.path.relpath(song_path, src): both are made absolute against the working directory
song_relpath(song_path, src) ==
    Bind(PathJoin(Cwd, Path(song_path)), LAMBDA sp :
    Bind(PathJoin(Cwd, Path(src)), LAMBDA st :
        IF sp.drv # st.drv THEN [err |-> "ValueError: different mounts", path |-> <<>>]
        ELSE [err |-> NoError, path |-> relparts(sp.parts, st.parts)]))

\* os.path.join(dest, rel) for a rel without drive or root: dest ends in a separator
song_join(dest, rel) == dest \o rel

\* the UPDATE of a song without its "folder" column: the old folder-hash stays
UpdateSong_keeps_folder(song, song_path, new_path, dest_crc, dest_parent_crc) ==
    AsSeq([k \in DOMAIN song |->
              IF song[k].path = song_path
              THEN [song[k] EXCEPT !.path = new_path, !.parent = dest_parent_crc]
              ELSE song[k]])

\* UPDATE song SET folder, path, parent WHERE path = song_path
UpdateSong(song, song_path, new_path, dest_crc, dest_parent_crc) ==
    AsSeq([k \in DOMAIN song |->
              IF song[k].path = song_path
              THEN [song[k] EXCEPT !.folder = dest_crc, !.path = new_path,
                                   !.parent = dest_parent_crc]
              ELSE song[k]])

RECURSIVE MoveSongs(_, _, _, _, _, _)
\* the loop over the songs of src: [err, song]
MoveSongs(song, paths, src, dest, dest_crc, dest_parent_crc) ==
    IF paths = <<>> THEN [err |-> NoError, song |-> song]
    ELSE Bind(song_relpath(Head(paths), src), LAMBDA rel :
             IF rel.err # NoError THEN [err |-> rel.err, song |-> song]
             ELSE Bind(UpdateSong(song, Head(paths), song_join(dest, rel.path),
                                  dest_crc, dest_parent_crc), LAMBDA updated :
                  Bind(Tail(paths), LAMBDA rest :
                      MoveSongs(updated, rest, src, dest, dest_crc, dest_parent_crc))))

\* the UPDATE without its "parent" column: the row keeps its old parent-hash
UpdateFolder_keeps_parent(folder, src, dest, dest_parent_crc) ==
    AsSeq([k \in DOMAIN folder |->
              IF folder[k].path = src
              THEN [FolderRow(dest, dest_parent_crc) EXCEPT !.parent = folder[k].parent]
              ELSE folder[k]])

\* an INSERT of the row of dest where the code has an UPDATE of the row of src
UpdateFolder_inserts(folder, src, dest, dest_parent_crc) ==
    Append(folder, FolderRow(dest, dest_parent_crc))

\* UPDATE folder SET title, path, parent WHERE path = src
UpdateFolder(folder, src, dest, dest_parent_crc) ==
    Bind(FolderRow(dest, dest_parent_crc), LAMBDA row :
        AsSeq([k \in DOMAIN folder |-> IF folder[k].path = src THEN row ELSE folder[k]]))

\* what an engine operation returns
Result(f, s, e, r) == [folder |-> f, song |-> s, err |-> e, ret |-> r]

RECURSIVE db_move_folder(_, _, _, _, _, _)
RECURSIVE MoveChildren(_, _, _, _, _, _, _)

\* the loop over the folders whose parent is src_crc
MoveChildren(folder, song, rootdirs, children, src, dest, depth) ==
    IF children = <<>> THEN Result(folder, song, NoError, "None")
    ELSE Bind(bms_path_graft(Head(children), src, dest), LAMBDA sub_dest :
             IF sub_dest.err # NoError THEN Result(folder, song, sub_dest.err, "None")
             ELSE Bind(db_move_folder(folder, song, rootdirs, Head(children), sub_dest.path,
                                      depth + 1), LAMBDA r :
                      IF r.err # NoError THEN r
                      ELSE Bind(Tail(children), LAMBDA rest :
                               MoveChildren(r.folder, r.song, rootdirs, rest, src, dest, depth))))

\* lines 384-405 of db_move_folder, for a src that has exactly one row: the
\* identities, the parents of dest, and the folder table after the UPDATE
MovePrepare(folder, rootdirs, src, dest) ==
    Bind(find_and_create_parents(folder, rootdirs, dest), LAMBDA fp :
    Bind(fp.err = "LastDirectoryError", LAMBDA dest_is_root_folder :
    Bind(IF dest_is_root_folder THEN ROOT_FOLDER_CRC ELSE fp.parent_crc,
         LAMBDA dest_parent_crc :
        [err |-> IF dest_is_root_folder THEN NoError ELSE fp.err,
         src_crc |-> bms_path_crc32(src, rootdirs),
         dest_crc |-> bms_path_crc32(dest, rootdirs),
         dest_is_root_folder |-> dest_is_root_folder,
         dest_parent_crc |-> dest_parent_crc,
         folder |-> IF fp.err \in {NoError, "LastDirectoryError"}
                    THEN UpdateFolder(fp.folder, src, dest, dest_parent_crc)
                    ELSE folder])))

\* lines 384-436 of db_move_folder, for a src that has exactly one row
MoveFound(folder, song, rootdirs, src, dest, depth) ==
    Bind(MovePrepare(folder, rootdirs, src, dest), LAMBDA p :
        IF p.err # NoError THEN Result(folder, song, p.err, "None")
        ELSE
        Bind(MoveChildren(p.folder, song, rootdirs, ChildPaths(p.folder, p.src_crc),
                          src, dest, depth), LAMBDA kids :
            IF kids.err # NoError THEN kids
            ELSE Bind(MoveSongs(kids.song, SongPaths(kids.song, p.src_crc),
                                src, dest, p.dest_crc, p.dest_parent_crc), LAMBDA sg :
                     Result(kids.folder, sg.song, sg.err,
                            IF sg.err # NoError THEN "None"
                            ELSE IF p.dest_is_root_folder THEN "True" ELSE "False"))))

\* db_move_folder without the early return for src = dest
db_move_folder_without_return(folder, song, rootdirs, src, dest, depth) ==
    IF depth > MaxRecursion THEN Result(folder, song, "RecursionError", "None")
    ELSE IF ~check_bms_path(src) \/ ~check_bms_path(dest)
    THEN Result(folder, song, "AssertionError", "None")
    ELSE Bind(Len(RowsAt(folder, src)), LAMBDA n :
             IF n = 0 THEN Result(folder, song, "ValueError: no entry", "None")
             ELSE IF n > 1 THEN Result(folder, song, "ValueError: multiple entries", "None")
             ELSE MoveFound(folder, song, rootdirs, src, dest, depth))

\* db_move_folder checking only that src has an entry, not that it has one only
db_move_folder_any_entry(folder, song, rootdirs, src, dest, depth) ==
    IF depth > MaxRecursion THEN Result(folder, song, "RecursionError", "None")
    ELSE IF ~check_bms_path(src) \/ ~check_bms_path(dest)
    THEN Result(folder, song, "AssertionError", "None")
    ELSE IF src = dest THEN Result(folder, song, NoError, "None")
    ELSE Bind(Len(RowsAt(folder, src)), LAMBDA n :
             IF n = 0 THEN Result(folder, song, "ValueError: no entry", "None")
             ELSE MoveFound(folder, song, rootdirs, src, dest, depth))

\* db_move_folder at recursion depth `depth`
db_move_folder(folder, song, rootdirs, src, dest, depth) ==
    IF depth > MaxRecursion THEN Result(folder, song, "RecursionError", "None")
    ELSE IF ~check_bms_path(src) \/ ~check_bms_path(dest)
    THEN Result(folder, song, "AssertionError", "None")
    ELSE IF src = dest THEN Result(folder, song, NoError, "None")
    ELSE Bind(Len(RowsAt(folder, src)), LAMBDA n :
             IF n = 0 THEN Result(folder, song, "ValueError: no entry", "None")
             ELSE IF n > 1 THEN Result(folder, song, "ValueError: multiple entries", "None")
             ELSE MoveFound(folder, song, rootdirs, src, dest, depth))

RECURSIVE db_delete_folder(_, _, _, _, _)
RECURSIVE DeleteChildren(_, _, _, _, _)

\* the loop over the folders whose parent is src_crc
DeleteChildren(folder, song, rootdirs, children, depth) ==
    IF children = <<>> THEN Result(folder, song, NoError, "None")
    ELSE Bind(db_delete_folder(folder, song, rootdirs, Head(children), depth + 1), LAMBDA r :
             IF r.err # NoError THEN r
             ELSE Bind(Tail(children), LAMBDA rest :
                      DeleteChildren(r.folder, r.song, rootdirs, rest, depth)))

\* DELETE FROM song WHERE folder = ?
DeleteSongs(song, crc) == SelectSeq(song, LAMBDA r : r.folder # crc)

\* db_delete_folder at recursion depth `depth`
db_delete_folder(folder, song, rootdirs, src, depth) ==
    IF depth > MaxRecursion THEN Result(folder, song, "RecursionError", "None")
    ELSE IF ~check_bms_path(src) THEN Result(folder, song, "AssertionError", "None")
    ELSE Bind(bms_path_crc32(src, rootdirs), LAMBDA src_crc :
         Bind(DeleteChildren(folder, song, rootdirs, ChildPaths(folder, src_crc), depth),
              LAMBDA kids :
                  IF kids.err # NoError THEN kids
                  ELSE Result(kids.folder, DeleteSongs(kids.song, src_crc), NoError, "None")))

\* ------------------------------------------------------------------
\* The filesystem (the set of existing directories, as paths) and the
\* root-directory list config.data["bmsroot"]
\* ------------------------------------------------------------------
\* a path and all its ancestors
WithParents(p) == {[p EXCEPT !.parts = SubSeq(p.parts, 1, k)] : k \in 0..Len(p.parts)}

\* Path.mkdir(parents=True, exist_ok=True)
mkdir(ds, p) == ds \cup WithParents(p)

\* shutil.move(src_abs, dest_abs) of a directory to a path that does not exist: [err, dirs]
shutil_move(ds, src_abs, dest_abs) ==
    IF PathIsRelativeTo(dest_abs, src_abs)
    THEN [err |-> "shutil.Error: into itself", dirs |-> ds]
    ELSE [err |-> NoError,
          dirs |-> {d \in ds : ~PathIsRelativeTo(d, src_abs)} \cup
                   {[dest_abs EXCEPT !.parts = dest_abs.parts \o RelativeParts(d, src_abs)] :
                        d \in {e \in ds : PathIsRelativeTo(e, src_abs)}}]

\* the removal sink of delete_folder: _default_send_to_trash does nothing, a
\* caller's sink removes the directory
send_to_trash(ds, src_abs, sink) ==
    IF sink = "default" THEN ds ELSE {d \in ds : ~PathIsRelativeTo(d, src_abs)}

\* is_root_folder: [err, is_root]
is_root_folder(folder, src) ==
    Bind(RowsAt(folder, src), LAMBDA rows :
        IF rows = <<>> THEN [err |-> "ValueError: not found in database", is_root |-> FALSE]
        ELSE [err |-> NoError, is_root |-> rows[1].parent = ROOT_FOLDER_CRC])

\* BeatorajaConfig.add_bmsroot
add_bmsroot(roots, path) == Append(roots, DropLast(path))

RECURSIVE FindBmsroot(_, _, _)
\* the loop of remove_bmsroot from entry i on: [err, index], index 0 when no entry matches
FindBmsroot(roots, folder_abs, i) ==
    IF i > Len(roots) THEN [err |-> NoError, index |-> 0]
    ELSE IF ~check_bms_path(roots[i]) THEN [err |-> "AssertionError", index |-> 0]
    ELSE IF bms_path_absolute(roots[i]) = folder_abs THEN [err |-> NoError, index |-> i]
    ELSE FindBmsroot(roots, folder_abs, i + 1)

\* BeatorajaConfig.remove_bmsroot: [err, bmsroot]
remove_bmsroot(roots, path) ==
    Bind(FindBmsroot(roots, bms_path_absolute(path), 1), LAMBDA f :
        [err |-> f.err,
         bmsroot |-> IF f.err = NoError /\ f.index > 0
                     THEN SubSeq(roots, 1, f.index - 1) \o From(roots, f.index)
                     ELSE roots])

\* An orchestrating operation returns [folder, song, bmsroot, dirs, err, ret].
Outcome(f, s, b, d, e, r) ==
    [folder |-> f, song |-> s, bmsroot |-> b, dirs |-> d, err |-> e, ret |-> r]

add_root_folder(f, s, b, d, path) ==
    IF ~check_bms_path(path) THEN Outcome(f, s, b, d, "AssertionError", "None")
    ELSE Bind(bms_path_absolute(path), LAMBDA folder_abs :
             IF folder_abs \in d THEN Outcome(f, s, b, d, "AssertionError", "None")
             ELSE Bind(db_add_root_folder(f, s, path), LAMBDA r :
                      Outcome(r.folder, r.song, add_bmsroot(b, path), mkdir(d, folder_abs),
                              NoError, "None")))

\* lines 499-507 of move_folder with src taken off the list before the
\* directory is moved
MoveOnDisk_list_first(r, b, d, src, dest, src_abs, dest_abs) ==
    Bind(mkdir(d, PathParent(dest_abs)), LAMBDA made :
    Bind(remove_bmsroot(b, src), LAMBDA rm :
    Bind(shutil_move(made, src_abs, dest_abs), LAMBDA mv :
        IF mv.err # NoError THEN Outcome(r.folder, r.song, rm.bmsroot, made, mv.err, "None")
        ELSE Outcome(r.folder, r.song,
                     IF r.ret = "True" THEN add_bmsroot(rm.bmsroot, dest) ELSE rm.bmsroot,
                     mv.dirs, rm.err, "None"))))

\* lines 499-507 of move_folder: after db_move_folder returned r
MoveOnDisk(r, b, d, src, dest, src_abs, dest_abs) ==
    Bind(mkdir(d, PathParent(dest_abs)), LAMBDA made :
    Bind(shutil_move(made, src_abs, dest_abs), LAMBDA mv :
        IF mv.err # NoError THEN Outcome(r.folder, r.song, b, made, mv.err, "None")
        ELSE
        Bind(is_root_folder(r.folder, src), LAMBDA isroot :
            IF isroot.err # NoError
            THEN Outcome(r.folder, r.song, b, mv.dirs, isroot.err, "None")
            ELSE
            Bind(IF isroot.is_root THEN remove_bmsroot(b, src)
                 ELSE [err |-> NoError, bmsroot |-> b], LAMBDA rm :
                IF rm.err # NoError
                THEN Outcome(r.folder, r.song, b, mv.dirs, rm.err, "None")
                ELSE Outcome(r.folder, r.song,
                             IF r.ret = "True" THEN add_bmsroot(rm.bmsroot, dest)
                             ELSE rm.bmsroot,
                             mv.dirs, NoError, "None")))))

\* move_folder without its two assertions on the directories
move_folder_unasserted(f, s, b, d, rootdirs, src, dest) ==
    IF ~check_bms_path(src) \/ ~check_bms_path(dest)
    THEN Outcome(f, s, b, d, "AssertionError", "None")
    ELSE
    Bind(bms_path_absolute(src), LAMBDA src_abs :
    Bind(bms_path_absolute(dest), LAMBDA dest_abs :
        Bind(db_move_folder(f, s, rootdirs, src, dest, 1), LAMBDA r :
            IF r.err # NoError THEN Outcome(r.folder, r.song, b, d, r.err, "None")
            ELSE MoveOnDisk(r, b, d, src, dest, src_abs, dest_abs))))

move_folder(f, s, b, d, rootdirs, src, dest) ==
    IF ~check_bms_path(src) \/ ~check_bms_path(dest)
    THEN Outcome(f, s, b, d, "AssertionError", "None")
    ELSE
    Bind(bms_path_absolute(src), LAMBDA src_abs :
    Bind(bms_path_absolute(dest), LAMBDA dest_abs :
        IF src_abs \notin d \/ dest_abs \in d THEN Outcome(f, s, b, d, "AssertionError", "None")
        ELSE Bind(db_move_folder(f, s, rootdirs, src, dest, 1), LAMBDA r :
                 IF r.err # NoError THEN Outcome(r.folder, r.song, b, d, r.err, "None")
                 ELSE MoveOnDisk(r, b, d, src, dest, src_abs, dest_abs))))

delete_folder(f, s, b, d, rootdirs, src, sink) ==
    IF ~check_bms_path(src) THEN Outcome(f, s, b, d, "AssertionError", "None")
    ELSE
    Bind(bms_path_absolute(src), LAMBDA src_abs :
        IF src_abs \notin d THEN Outcome(f, s, b, d, "AssertionError", "None")
        ELSE Bind(db_delete_folder(f, s, rootdirs, src, 1), LAMBDA r :
                 IF r.err # NoError THEN Outcome(r.folder, r.song, b, d, r.err, "None")
                 ELSE Bind(remove_bmsroot(b, src), LAMBDA rm :
                          Outcome(r.folder, r.song, rm.bmsroot,
                                  send_to_trash(d, src_abs, sink), rm.err, "None"))))

\* ------------------------------------------------------------------
\* The state machine: one session of operations on an index, inside one
\* open transaction
\* ------------------------------------------------------------------
VARIABLES
    folder,     \* the folder table
    song,       \* the song table
    rootdirs,   \* crc_calc.root_dirs, read once by from_songdata_db
    bmsroot,    \* config.data["bmsroot"]
    dirs,       \* the directories that exist
    last,       \* the last operation: its name, arguments, outcome and the state it started from
    steps,      \* the number of operations so far
    call,       \* the last application of a virtual-path helper: its name, arguments and result
    batch       \* the run of main.py: its arguments, position, and what is committed and saved

vars == <<folder, song, rootdirs, bmsroot, dirs, last, steps, call, batch>>

\* the relative virtual path of the folder with the given segments, "\\" convention
V(segs) == Concat(AsSeq([k \in DOMAIN segs |-> <<segs[k], BS>>]))

\* a consistent folder table: a root has the sentinel as parent, any other
\* folder the identity of its parent path
IndexFolders(paths, roots) ==
    AsSeq([k \in DOMAIN paths |->
              FolderRow(paths[k],
                        IF \E j \in DOMAIN roots : roots[j] = paths[k] THEN ROOT_FOLDER_CRC
                        ELSE bms_path_crc32(bms_path_dirname(paths[k]).path, roots))])

\* one song file "s" in each folder of the table
IndexSongs(fs) ==
    AsSeq([k \in DOMAIN fs |->
              [path |-> Append(fs[k].path, "s"),
               folder |-> bms_path_crc32(fs[k].path, RootPathsOf(fs)),
               parent |-> fs[k].parent]])

\* a consistent index of the given folders
BaseIndex(paths, roots) ==
    Bind(IndexFolders(paths, roots), LAMBDA fs : [folder |-> fs, song |-> IndexSongs(fs)])

\* the index an earlier session's db_move_folder(src, dest) left of ix
MovedIndex(ix, src, dest) ==
    Bind(db_move_folder(ix.folder, ix.song, RootPathsOf(ix.folder), src, dest, 1),
         LAMBDA r : [folder |-> r.folder, song |-> r.song])

\* two roots with a three-level tree under one
TreeIndex ==
    BaseIndex(<<V(<<"a">>), V(<<"a", "b">>), V(<<"a", "b", "c">>), V(<<"d">>)>>,
              <<V(<<"a">>), V(<<"d">>)>>)

\* a root nested two levels deep beside a top-level root
NestedRootIndex ==
    BaseIndex(<<V(<<"a", "b">>), V(<<"a", "b", "c">>), V(<<"d">>)>>,
              <<V(<<"a", "b">>), V(<<"d">>)>>)

\* a root that an earlier session added directly inside the folder of
\* another root, with a folder of its own
RootInRootIndex ==
    BaseIndex(<<V(<<"a">>), V(<<"a", "b">>), V(<<"a", "b", "c">>), V(<<"d">>)>>,
              <<V(<<"a">>), V(<<"a", "b">>), V(<<"d">>)>>)

\* the indexes a session can start from: the two above, the tree after a move
\* that created a placeholder, and the tree after a move onto an existing path
InitIndexes ==
    { TreeIndex,
      NestedRootIndex,
      MovedIndex(TreeIndex, V(<<"a", "b">>), V(<<"d", "y", "z">>)),
      MovedIndex(TreeIndex, V(<<"a", "b", "c">>), V(<<"d">>)) }

RECURSIVE Distinct(_)
\* a sequence without its repetitions
Distinct(q) ==
    IF q = <<>> THEN <<>>
    ELSE Bind(Distinct(DropLast(q)), LAMBDA front :
             IF \E k \in DOMAIN front : front[k] = q[Len(q)] THEN front
             ELSE Append(front, q[Len(q)]))

SrcPaths == {V(<<"a">>), V(<<"a", "b">>), V(<<"a", "b", "c">>), V(<<"d">>), V(<<"x">>)}

DestPaths ==
    {V(<<"x">>), V(<<"x", "y">>), V(<<"d", "y">>), V(<<"d", "x", "y", "z">>),
     V(<<"a", "x">>), V(<<"d">>)}

AddPaths == {V(<<"x">>), V(<<"x", "y">>), V(<<"d">>)}

Sinks == {"default", "remove"}

NoOp ==
    [op |-> "init", src |-> <<>>, dest |-> <<>>, err |-> NoError, ret |-> "None",
     folder |-> <<>>, song |-> <<>>, bmsroot |-> <<>>, dirs |-> {}]

\* no helper has been applied yet
NoCall == [fn |-> "none", args |-> <<>>, err |-> NoError, ret |-> <<>>]

\* main.py has not been started
NoBatch == [pc |-> "idle"]

\* A session starts at rest: the list names the root folders, with or without
\* the trailing separator, and every folder of the index is a directory.
StartsFrom(indexes) ==
    \E ix \in indexes, slashed \in BOOLEAN :
        /\ folder = ix.folder
        /\ song = ix.song
        /\ rootdirs = RootPathsOf(ix.folder)
        /\ bmsroot = Bind(Distinct(RootPathsOf(ix.folder)), LAMBDA roots :
                         AsSeq([k \in DOMAIN roots |->
                                   IF slashed THEN roots[k] ELSE DropLast(roots[k])]))
        /\ dirs = UNION {WithParents(bms_path_absolute(ix.folder[k].path)) : k \in DOMAIN ix.folder}
        /\ last = NoOp
        /\ steps = 0
        /\ call = NoCall
        /\ batch = NoBatch

Init == StartsFrom(InitIndexes)

\* the state after an operation with outcome o
Becomes(op, src, dest, o) ==
    /\ steps' = steps + 1
    /\ folder' = o.folder
    /\ song' = o.song
    /\ bmsroot' = o.bmsroot
    /\ dirs' = o.dirs
    /\ last' = [op |-> op, src |-> src, dest |-> dest, err |-> o.err, ret |-> o.ret,
                folder |-> folder, song |-> song, bmsroot |-> bmsroot, dirs |-> dirs]
    /\ UNCHANGED <<rootdirs, call, batch>>

\* an engine outcome leaves the list and the directories alone
Engine(r) == Outcome(r.folder, r.song, bmsroot, dirs, r.err, r.ret)

\* db_move_folder called on the open transaction (main.py, dry run)
Move ==
    /\ steps < MaxOps
    /\ \E src \in SrcPaths, dest \in DestPaths \cup SrcPaths :
        \E r \in {db_move_folder(folder, song, rootdirs, src, dest, 1)} :
            Becomes("Move", src, dest, Engine(r))

\* db_delete_folder called on the open transaction
Delete ==
    /\ steps < MaxOps
    /\ \E src \in SrcPaths :
        \E r \in {db_delete_folder(folder, song, rootdirs, src, 1)} :
            Becomes("Delete", src, <<>>, Engine(r))

AddRoot ==
    /\ steps < MaxOps
    /\ \E path \in AddPaths :
        \E o \in {add_root_folder(folder, song, bmsroot, dirs, path)} :
            Becomes("AddRoot", path, <<>>, o)

MoveFolder ==
    /\ steps < MaxOps
    /\ \E src \in SrcPaths, dest \in DestPaths :
        \E o \in {move_folder(folder, song, bmsroot, dirs, rootdirs, src, dest)} :
            Becomes("MoveFolder", src, dest, o)

DeleteFolder ==
    /\ steps < MaxOps
    /\ \E src \in SrcPaths, sink \in Sinks :
        \E o \in {delete_folder(folder, song, bmsroot, dirs, rootdirs, src, sink)} :
            Becomes("DeleteFolder", src, <<>>, o)

Next == Move \/ Delete \/ AddRoot \/ MoveFolder \/ DeleteFolder

Spec == Init /\ [][Next]_vars

\* the engine's Move alone, on the indexes above and on one in which the
\* folder of a root holds another root, so that its identity is the sentinel
FrameInit == StartsFrom(InitIndexes \cup {RootInRootIndex})

FrameSpec == FrameInit /\ [][Move]_vars

\* the orchestrating operations alone
OrchNext == AddRoot \/ MoveFolder \/ DeleteFolder

OrchSpec == Init /\ [][OrchNext]_vars

\* ------------------------------------------------------------------
\* The orchestrating operations when the filesystem refuses what they ask
\* of it (OSError from Path.mkdir, shutil.move or the removal sink)
\* ------------------------------------------------------------------
\* add_root_folder, Path.mkdir raising
AddRootFsFails ==
    /\ steps < MaxOps
    /\ \E path \in AddPaths :
        /\ check_bms_path(path)
        /\ bms_path_absolute(path) \notin dirs
        /\ \E r \in {db_add_root_folder(folder, song, path)} :
            Becomes("AddRoot", path, <<>>,
                    Outcome(r.folder, r.song, bmsroot, dirs, "OSError", "None"))

\* move_folder, Path.mkdir or shutil.move raising
MoveFolderFsFails ==
    /\ steps < MaxOps
    /\ \E src \in SrcPaths, dest \in DestPaths, at \in {"mkdir", "move"} :
        /\ check_bms_path(src) /\ check_bms_path(dest)
        /\ bms_path_absolute(src) \in dirs
        /\ bms_path_absolute(dest) \notin dirs
        /\ \E r \in {db_move_folder(folder, song, rootdirs, src, dest, 1)} :
            /\ r.err = NoError
            /\ Becomes("MoveFolder", src, dest,
                       Outcome(r.folder, r.song, bmsroot,
                               IF at = "mkdir" THEN dirs
                               ELSE mkdir(dirs, PathParent(bms_path_absolute(dest))),
                               "OSError", "None"))

\* delete_folder, the removal sink raising
DeleteFolderFsFails ==
    /\ steps < MaxOps
    /\ \E src \in SrcPaths :
        /\ check_bms_path(src)
        /\ bms_path_absolute(src) \in dirs
        /\ \E r \in {db_delete_folder(folder, song, rootdirs, src, 1)} :
            /\ r.err = NoError
            /\ Becomes("DeleteFolder", src, <<>>,
                       Outcome(r.folder, r.song, bmsroot, dirs, "OSError", "None"))

FsFailNext ==
    AddRoot \/ MoveFolder \/ DeleteFolder \/ AddRootFsFails \/ MoveFolderFsFails
        \/ DeleteFolderFsFails

FsFailSpec == Init /\ [][FsFailNext]_vars

\* ------------------------------------------------------------------
\* The virtual-path helpers applied to paths of a bounded universe
\* ------------------------------------------------------------------
\* the folder names of the universe, in the order the paths nest them
SegLists ==
    {<<>>, <<<<"a">>>>, <<<<"a">>, <<"b">>>>, <<<<"a">>, <<"b">>, <<"c">>>>,
     <<<<"x">>>>, <<<<"x">>, <<"b">>>>}

\* the virtual path of the given kind with the given segments and separator
VP(kind, segs, sep) ==
    (IF kind = "drive" THEN <<"c", ":", sep>> ELSE IF kind = "root" THEN <<sep>> ELSE <<>>)
    \o Concat(AsSeq([k \in DOMAIN segs |-> Append(segs[k], sep)]))

\* relative paths, paths from the filesystem root and paths from the root of
\* drive c:, in both separator conventions; the lone separator and "c:\\" are among them
BmsPaths ==
    {VP(kind, segs, sep) : kind \in {"rel", "root", "drive"}, segs \in SegLists, sep \in Seps}
        \ {<<>>}

\* part sequences of filesystem paths, some with ".." steps
PartLists ==
    {<<>>, <<<<"a">>>>, <<<<"a">>, <<"b">>>>, <<<<"x">>>>,
     <<<<"o">>>>, <<<<"o">>, <<"a">>>>, <<<<"o">>, <<"a">>, <<"b">>>>,
     <<<<"o">>, <<".", ".">>, <<"x">>>>, <<<<"o">>, <<"a">>, <<".", ".">>, <<"b">>>>,
     <<<<"a">>, <<".", ".">>>>, <<<<".", ".">>>>, <<<<"a">>, <<".", ".">>, <<"b">>>>}

\* the Path arguments of bms_path_make: relative paths and absolute paths on two drives
FsPaths ==
    {RelativePath(parts) : parts \in PartLists} \cup
    {[drv |-> <<d, ":">>, root |-> TRUE, parts |-> parts] : d \in {"c", "d"}, parts \in PartLists}

\* the path the last helper returned, if it returned one
Returned ==
    IF call.fn \in {"bms_path_make", "bms_path_dirname", "bms_path_graft"} /\ call.err = NoError
    THEN {call.ret} ELSE {}

\* the paths a helper is applied to: any path of the universe at first, the
\* path the last helper returned afterwards
Fresh(paths) == IF call.fn = "none" THEN paths ELSE {}

Applied(fn, args, r) ==
    /\ call' = [fn |-> fn, args |-> args, err |-> r.err, ret |-> r.path]
    /\ UNCHANGED <<folder, song, rootdirs, bmsroot, dirs, last, steps, batch>>

Make ==
    \E path \in Fresh(FsPaths), separator \in Seps :
        \E r \in {bms_path_make(path, separator)} :
            Applied("bms_path_make", <<path, separator>>, r)

Absolute ==
    \E path \in Fresh(BmsPaths) \cup Returned :
        \E r \in {bms_path_absolute(path)} :
            Applied("bms_path_absolute", <<path>>, [err |-> NoError, path |-> r])

Dirname ==
    \E path \in Fresh(BmsPaths) \cup Returned :
        \E r \in {bms_path_dirname(path)} :
            Applied("bms_path_dirname", <<path>>, r)

Graft ==
    \E path \in Fresh(BmsPaths), src \in BmsPaths, dst \in BmsPaths :
        \E r \in {bms_path_graft(path, src, dst)} :
            Applied("bms_path_graft", <<path, src, dst>>, r)

\* crc_calc.root_dirs: the lists of root directories a calculator is built with
RootDirLists ==
    {<<>>, <<V(<<"a">>)>>, <<V(<<"a", "b">>)>>, <<V(<<"a">>), V(<<"x", "b">>)>>,
     <<VP("drive", <<<<"x">>, <<"b">>>>, BS)>>, <<VP("root", <<<<"a">>>>, FS)>>}

\* bms_path_crc32 of a path of the universe, or of the path bms_path_make
\* returned, for a calculator with any of the lists
Crc32 ==
    \E path \in Fresh(BmsPaths) \cup {p \in Returned : call.fn = "bms_path_make"},
       root_dirs \in RootDirLists :
        \E r \in {bms_path_crc32(path, root_dirs)} :
            Applied("bms_path_crc32", <<path, root_dirs>>, [err |-> NoError, path |-> r])

\* the helpers are pure: the index they are applied beside is one fixed index
PathInit == Init /\ folder = TreeIndex.folder /\ bmsroot = rootdirs

PathNext == Make \/ Absolute \/ Dirname \/ Graft \/ Crc32

PathSpec == PathInit /\ [][PathNext]_vars

\* ------------------------------------------------------------------
\* crc32, lines 123-137, one statement at a time: `call` holds the register,
\* the bytes still to read and the statement executed last
\* ------------------------------------------------------------------
\* the strings the checksum is taken of, some with a character outside ASCII
CrcStrs ==
    {<<>>, <<"a">>, <<EAcute>>, <<"c", EAcute>>, <<"a", BS, EAcute>>, <<EAcute, BS, "a">>,
     <<"b", "s", "c">>, <<"x", BS, "y", BS, "z">>}

\* crc = 0xFFFFFFFF, and the bytes of (path_str + "\\\0").encode()
CrcStart ==
    /\ call.fn = "none"
    /\ \E path_str \in CrcStrs :
        call' = [fn |-> "crc32", args |-> <<path_str>>, err |-> NoError, ret |-> <<>>,
                 step |-> "start", crc |-> CrcInit, prev |-> CrcInit,
                 bytes |-> Encode(path_str \o <<BS, NUL>>), b |-> 0,
                 rounds |-> 0, read |-> 0, shifts |-> 0]
    /\ UNCHANGED <<folder, song, rootdirs, bmsroot, dirs, last, steps, batch>>

\* crc ^= ((b - 256) & 0xFFFFFFFF) if b >= 128 else b, for the next byte
CrcXor ==
    /\ call.fn = "crc32" /\ call.step # "return"
    /\ call.rounds = 0 /\ call.bytes # <<>>
    /\ call' = [call EXCEPT !.step = "xor", !.prev = call.crc,
                            !.crc = XorReg(call.crc, ByteReg(Head(call.bytes))),
                            !.b = Head(call.bytes), !.bytes = Tail(call.bytes),
                            !.rounds = 8, !.read = @ + 1]
    /\ UNCHANGED <<folder, song, rootdirs, bmsroot, dirs, last, steps, batch>>

\* one pass of "for _ in range(8)"
CrcShift ==
    /\ call.fn = "crc32" /\ call.step # "return"
    /\ call.rounds > 0
    /\ call' = [call EXCEPT !.step = "shift", !.prev = call.crc,
                            !.crc = CrcRound(call.crc),
                            !.rounds = @ - 1, !.shifts = @ + 1]
    /\ UNCHANGED <<folder, song, rootdirs, bmsroot, dirs, last, steps, batch>>

\* return hex(~crc & 0xFFFFFFFF)[2:]
CrcReturn ==
    /\ call.fn = "crc32" /\ call.step # "return"
    /\ call.rounds = 0 /\ call.bytes = <<>>
    /\ call' = [call EXCEPT !.step = "return", !.prev = call.crc,
                            !.ret = HexOfComplement(call.crc)]
    /\ UNCHANGED <<folder, song, rootdirs, bmsroot, dirs, last, steps, batch>>

CrcNext == CrcStart \/ CrcXor \/ CrcShift \/ CrcReturn

CrcSpec == PathInit /\ [][CrcNext]_vars

\* ------------------------------------------------------------------
\* main.py: every immediate subfolder of args.src is moved to args.dest
\* inside one transaction ("with conn:"), on the index alone in a dry run
\* ------------------------------------------------------------------
\* args.src
BatchSrcs ==
    {PathJoin(BMSPATH, RelativePath(parts)) :
        parts \in {<<>>, <<<<"a">>>>, <<<<"a">>, <<"b">>>>, <<<<"d">>>>, <<<<"x">>>>}}

\* args.dest
BatchDests ==
    {PathJoin(BMSPATH, RelativePath(parts)) :
        parts \in {<<<<"x">>>>, <<<<"d">>>>, <<<<"d">>, <<"y">>>>}}

\* the names of the directories args.src.iterdir() yields
SubfolderNames(ds, p) ==
    {d.parts[Len(d.parts)] :
        d \in {e \in ds : Len(e.parts) = Len(p.parts) + 1 /\ PathIsRelativeTo(e, p)}}

\* lines 33-42: the connection is opened on the committed index, the list is
\* loaded, the transaction begins and args.src is listed
Start ==
    /\ batch.pc = "idle"
    /\ \E src \in BatchSrcs, dest \in BatchDests, dry_run \in BOOLEAN :
        batch' = [pc |-> IF src \in dirs THEN "loop" ELSE "failed",
                  err |-> IF src \in dirs THEN NoError ELSE "FileNotFoundError",
                  dry_run |-> dry_run, src |-> src, dest |-> dest,
                  todo |-> SubfolderNames(dirs, src), moved |-> {},
                  db |-> [folder |-> folder, song |-> song], saved |-> bmsroot,
                  db0 |-> [folder |-> folder, song |-> song], saved0 |-> bmsroot,
                  dirs0 |-> dirs]
    /\ UNCHANGED <<folder, song, rootdirs, bmsroot, dirs, last, steps, call>>

\* an exception that leaves the index as the transaction had it
Raised_without_rollback(o, name) ==
    /\ folder' = o.folder
    /\ song' = o.song
    /\ bmsroot' = o.bmsroot
    /\ dirs' = o.dirs
    /\ batch' = [batch EXCEPT !.pc = "failed", !.err = o.err, !.todo = @ \ {name}]

\* an exception leaves "with conn:": the transaction is rolled back and the
\* process ends; what was done to the directories stays
Raised(o, name) ==
    /\ folder' = batch.db.folder
    /\ song' = batch.db.song
    /\ bmsroot' = o.bmsroot
    /\ dirs' = o.dirs
    /\ batch' = [batch EXCEPT !.pc = "failed", !.err = o.err, !.todo = @ \ {name}]

\* the loop goes on to the next entry
Continued(o, name, moved) ==
    /\ folder' = o.folder
    /\ song' = o.song
    /\ bmsroot' = o.bmsroot
    /\ dirs' = o.dirs
    /\ batch' = [batch EXCEPT !.todo = @ \ {name}, !.moved = @ \cup moved]

\* lines 52-55 for one entry
MoveEntry(src, dest) ==
    IF batch.dry_run
    THEN Engine(db_move_folder(folder, song, rootdirs, src, dest, 1))
    ELSE move_folder(folder, song, bmsroot, dirs, rootdirs, src, dest)

\* lines 42-55: one iteration of the loop, for any entry not yet visited
Step ==
    /\ batch.pc = "loop"
    /\ \E name \in batch.todo :
        IF PathJoin(batch.src, RelativePath(<<name>>)) \notin dirs
        THEN Continued(Outcome(folder, song, bmsroot, dirs, NoError, "None"), name, {})
        ELSE
        \E src \in {bms_path_make(PathJoin(batch.src, RelativePath(<<name>>)), BS)},
           dest \in {bms_path_make(PathJoin(batch.dest, RelativePath(<<name>>)), BS)} :
            IF src.err # NoError \/ dest.err # NoError
            THEN Raised(Outcome(folder, song, bmsroot, dirs, "ValueError: Invalid path", "None"),
                        name)
            ELSE \E o \in {MoveEntry(src.path, dest.path)} :
                     IF o.err # NoError THEN Raised(o, name) ELSE Continued(o, name, {name})
    /\ UNCHANGED <<rootdirs, last, steps, call>>

\* the end of the loop without the "if args.dry_run: raise"
Finish_commits ==
    /\ batch.pc = "loop"
    /\ batch.todo = {}
    /\ batch' = [batch EXCEPT !.pc = "committed", !.saved = bmsroot,
                              !.db = [folder |-> folder, song |-> song]]
    /\ UNCHANGED <<folder, song, rootdirs, bmsroot, dirs, last, steps, call>>

\* lines 57-59 and the end of "with conn:": a dry run raises and is rolled
\* back; otherwise the list is saved and the transaction committed
Finish ==
    /\ batch.pc = "loop"
    /\ batch.todo = {}
    /\ IF batch.dry_run
       THEN /\ folder' = batch.db.folder
            /\ song' = batch.db.song
            /\ batch' = [batch EXCEPT !.pc = "aborted", !.err = "RuntimeError: Dry run"]
       ELSE /\ batch' = [batch EXCEPT !.pc = "committed", !.saved = bmsroot,
                                     !.db = [folder |-> folder, song |-> song]]
            /\ UNCHANGED <<folder, song>>
    /\ UNCHANGED <<rootdirs, bmsroot, dirs, last, steps, call>>

MainNext == Start \/ Step \/ Finish

MainSpec == Init /\ [][MainNext]_vars

\* ------------------------------------------------------------------
\* Properties of the operations. `last` holds the operation that led to
\* the current state and the index, list and directories it started from.
\* ------------------------------------------------------------------
\* the last operation was op and it returned without raising
Completed(op) == last.op = op /\ last.err = NoError

\* path lies strictly below src
Below(path, src) == path # src /\ StartsWith(path, src)

\* the identity of a virtual path, as the session's calculator computes it
identity(path) == bms_path_crc32(path, rootdirs)

\* the identity of the immediate parent path of path
parent_identity(path) == identity(bms_path_dirname(path).path)

\* the rows of a table, as a set
RecordsOf(rows) == {rows[k] : k \in DOMAIN rows}

\* the number of rows of fs with this path and this parent-hash
Count(fs, path, parent) ==
    Cardinality({k \in DOMAIN fs : fs[k].path = path /\ fs[k].parent = parent})

\* the parent-hash links of a folder table are consistent: one row per path,
\* each either root-parented or linked to the row of its parent path
Consistent(fs) ==
    \A k \in DOMAIN fs :
        /\ Len(RowsAt(fs, fs[k].path)) = 1
        /\ \/ fs[k].parent = ROOT_FOLDER_CRC
           \/ /\ bms_path_dirname(fs[k].path).err = NoError
              /\ fs[k].parent = parent_identity(fs[k].path)
              /\ Len(RowsAt(fs, bms_path_dirname(fs[k].path).path)) = 1

\* an entry of the root-directory list as a virtual path
AsBmsPath(entry) == IF check_bms_path(entry) THEN entry ELSE Append(entry, BS)

\* C1: after any sequence of AddRoot, MoveFolder and DeleteFolder operations
\* that returned, the paths of the root-directory list are exactly the paths
\* of the folder records whose parent-hash is the sentinel.
C1_RootSetInvariant ==
    last.err = NoError =>
        {AsBmsPath(bmsroot[k]) : k \in DOMAIN bmsroot}
            = {folder[k].path : k \in {j \in DOMAIN folder : folder[j].parent = ROOT_FOLDER_CRC}}

\* C2: MoveFolder(src, dest), with src an existing directory that has exactly
\* one folder record and dest not existing, completes without error; src has
\* left the root-directory list if its record was root-parented, and dest has
\* been appended if Move reported it root-parented.
C2_MoveFolderCompletes ==
    ( /\ last.op = "MoveFolder"
      /\ bms_path_absolute(last.src) \in last.dirs
      /\ bms_path_absolute(last.dest) \notin last.dirs
      /\ Len(RowsAt(last.folder, last.src)) = 1 ) =>
        /\ last.err = NoError
        /\ RowsAt(last.folder, last.src)[1].parent = ROOT_FOLDER_CRC =>
               \A k \in DOMAIN bmsroot : AsBmsPath(bmsroot[k]) # last.src
        /\ db_move_folder(last.folder, last.song, rootdirs, last.src, last.dest, 1).ret = "True" =>
               \E k \in DOMAIN bmsroot : AsBmsPath(bmsroot[k]) = last.dest

\* C4: every placeholder record a Move created for a missing ancestor of dest
\* has as parent-hash the identity of its immediate parent path, and is not
\* its own parent.
C4_PlaceholderParents ==
    (Completed("Move") /\ last.src # last.dest) =>
        \A k \in DOMAIN folder :
            (Below(last.dest, folder[k].path) /\ RowsAt(last.folder, folder[k].path) = <<>>) =>
                /\ folder[k].parent = parent_identity(folder[k].path)
                /\ folder[k].parent # identity(folder[k].path)

\* C5: after Delete(src) no folder record below src remains in the index, and
\* the record of src itself is left in place unchanged.
C5_DeleteRemovesDescendants ==
    Completed("Delete") =>
        /\ \A k \in DOMAIN folder : ~Below(folder[k].path, last.src)
        /\ RowsAt(folder, last.src) = RowsAt(last.folder, last.src)

\* C6: after Delete(src) on an index with consistent parent-hash links, no
\* song record remains whose folder-hash is the identity of src or of a
\* folder below src, and the song records of the other folders are untouched.
C6_DeleteRemovesSongs ==
    (Completed("Delete") /\ Consistent(last.folder)) =>
        LET inside == {identity(last.src)} \cup
                      {identity(last.folder[k].path) :
                           k \in {j \in DOMAIN last.folder : Below(last.folder[j].path, last.src)}}
        IN  /\ \A k \in DOMAIN song : song[k].folder \notin inside
            /\ SelectSeq(song, LAMBDA r : r.folder \notin inside)
                   = SelectSeq(last.song, LAMBDA r : r.folder \notin inside)

\* C3: after Move(src, dest) on an index with consistent parent-hash links,
\* every folder record that was below src is found at its path rebased from
\* src to dest, none remains at its old path, and its parent-hash is the
\* identity of its new parent path.
C3_DescendantsRebased ==
    (Completed("Move") /\ last.src # last.dest /\ Consistent(last.folder)) =>
        \A k \in DOMAIN last.folder :
            Below(last.folder[k].path, last.src) =>
                LET moved == bms_path_graft(last.folder[k].path, last.src, last.dest).path
                    rows == RowsAt(folder, moved)
                IN  /\ rows # <<>>
                    /\ \A j \in DOMAIN rows : rows[j].parent = parent_identity(moved)
                    /\ RowsAt(folder, last.folder[k].path) = <<>>

\* a Move of a folder with a grandchild has completed on a consistent index
C3_Witness ==
    /\ Completed("Move") /\ last.src # last.dest /\ Consistent(last.folder)
    /\ \E k \in DOMAIN last.folder :
           /\ Below(last.folder[k].path, last.src)
           /\ bms_path_dirname(last.folder[k].path).path # last.src
           /\ RowsAt(folder, bms_path_graft(last.folder[k].path, last.src, last.dest).path) # <<>>

\* C8: Move(src, src) raises no error and leaves every folder and song
\* record as it was.
C8_MoveToSelfNoOp ==
    (last.op = "Move" /\ last.src = last.dest) =>
        /\ last.err = NoError
        /\ folder = last.folder
        /\ song = last.song

\* Move(src, src) has been called for a src that has a record and child folders
C8_Witness ==
    /\ last.op = "Move" /\ last.src = last.dest
    /\ Len(RowsAt(last.folder, last.src)) = 1
    /\ ChildPaths(last.folder, identity(last.src)) # <<>>

\* C9: Move(src, dest) with src # dest raises the not-found error when no
\* folder record has path src and the integrity error when several have, and
\* in both cases leaves the index unchanged.
C9_SourceLookupErrors ==
    (last.op = "Move" /\ last.src # last.dest) =>
        /\ Len(RowsAt(last.folder, last.src)) = 0 =>
               (last.err = "ValueError: no entry" /\ folder = last.folder /\ song = last.song)
        /\ Len(RowsAt(last.folder, last.src)) > 1 =>
               (last.err = "ValueError: multiple entries" /\ folder = last.folder
                    /\ song = last.song)

\* Move has been refused for a src with two records
C9_Witness ==
    /\ last.op = "Move" /\ last.src # last.dest
    /\ Len(RowsAt(last.folder, last.src)) > 1
    /\ last.err = "ValueError: multiple entries"

RECURSIVE AncestorsOf(_)
\* the paths above path, up to the last directory
AncestorsOf(path) ==
    IF bms_path_dirname(path).err # NoError THEN {}
    ELSE {bms_path_dirname(path).path} \cup AncestorsOf(bms_path_dirname(path).path)

\* the upward walk from dest finds no folder record
WalkExhausts(fs, dest) == \A p \in AncestorsOf(dest) : RowsAt(fs, p) = <<>>

\* C10: Move(src, dest) returns true exactly when the upward walk over the
\* ancestors of dest finds no folder record; then the record of dest has the
\* sentinel as parent-hash and no placeholder is inserted; otherwise it
\* returns false and the parent-hash of dest is the identity of its parent path.
C10_ReturnsRootParented ==
    (Completed("Move") /\ last.src # last.dest) =>
        IF WalkExhausts(last.folder, last.dest)
        THEN /\ last.ret = "True"
             /\ Count(folder, last.dest, ROOT_FOLDER_CRC)
                    = Count(last.folder, last.dest, ROOT_FOLDER_CRC) + 1
             /\ Len(folder) = Len(last.folder)
        ELSE /\ last.ret = "False"
             /\ Count(folder, last.dest, parent_identity(last.dest))
                    = Count(last.folder, last.dest, parent_identity(last.dest)) + 1

\* a Move to a dest two levels below nothing has returned true
C10_Witness ==
    /\ Completed("Move") /\ last.src # last.dest
    /\ last.ret = "True"
    /\ Cardinality(AncestorsOf(last.dest)) > 1
    /\ Count(folder, last.dest, ROOT_FOLDER_CRC) = 1

\* two engine results hold the same folder and song records
SameRecords(r1, r2) ==
    /\ RecordsOf(r1.folder) = RecordsOf(r2.folder)
    /\ RecordsOf(r1.song) = RecordsOf(r2.song)

\* the Move that led here inserted no record for an ancestor of its dest
NoPlaceholders ==
    \A p \in AncestorsOf(last.dest) : RowsAt(folder, p) = RowsAt(last.folder, p)

Apart(p, q) == ~Below(p, q) /\ ~Below(q, p)

SongDir(path) == Append(dirname(path), BS)

\* every song's folder-hash is the identity of the directory portion of its path
SongsConsistent(ss) == \A k \in DOMAIN ss : ss[k].folder = identity(SongDir(ss[k].path))

\* C11: after Move(src, dest) every song record whose folder-hash was the
\* identity of src has the identity of dest as folder-hash and dest joined
\* with its path relative to src as path; and every song of the moved subtree
\* has as folder-hash the identity of the directory portion of its path.
C11_SongsFollowFolder ==
    (Completed("Move") /\ last.src # last.dest /\ SongsConsistent(last.song)) =>
        /\ \A k \in DOMAIN last.song :
               last.song[k].folder = identity(last.src) =>
                   /\ \E j \in DOMAIN song :
                          /\ song[j].path = last.dest \o From(last.song[k].path, Len(last.src))
                          /\ song[j].folder = identity(last.dest)
                   /\ \A j \in DOMAIN song : song[j].path # last.song[k].path
        /\ Len(song) = Len(last.song)
        /\ SongsConsistent(song)

\* a folder with a song of its own and songs in child folders has been moved
C11_Witness ==
    /\ Completed("Move") /\ last.src # last.dest /\ SongsConsistent(last.song)
    /\ SongPaths(last.song, identity(last.src)) # <<>>
    /\ \E k \in DOMAIN last.song :
           /\ Below(last.song[k].path, last.src)
           /\ last.song[k].folder # identity(last.src)
           /\ \A j \in DOMAIN song : song[j].path # last.song[k].path

C13_AddedRootIsRemoved ==
    \A path \in AddPaths, sink \in Sinks :
        \A o \in {add_root_folder(folder, song, bmsroot, dirs, path)} :
            o.err = NoError =>
                \A p \in {delete_folder(o.folder, o.song, o.bmsroot, o.dirs, rootdirs, path, sink)} :
                    /\ p.err = NoError
                    /\ \A k \in DOMAIN p.bmsroot : AsBmsPath(p.bmsroot[k]) # path

\* the last helper applied was fn
Called(fn) == call.fn = fn

\* a filesystem folder path inside the installation root, the root included
InsideInstallation(p) == PathIsAbsolute(p) /\ Resolve(p) = p /\ PathIsRelativeTo(p, BMSPATH)

\* C16: for every filesystem folder path p inside the installation root (the
\* installation root included) and either separator convention,
\* bms_path_absolute(bms_path_make(p, sep)) is p.
C16_MakeThenAbsolute ==
    (Called("bms_path_make") /\ InsideInstallation(call.args[1])) =>
        /\ call.err = NoError
        /\ bms_path_absolute(call.ret) = call.args[1]

\* a filesystem path that names a folder by its segments, other than a root
\* of the filesystem and other than the installation root
NonRootChild(p) ==
    /\ p.parts # <<>>
    /\ \A k \in DOMAIN p.parts : p.parts[k] # <<".", ".">>
    /\ p # BMSPATH

IsRootPath(p) ==
    \A i \in (IF Len(p) >= 2 /\ p[2] = ":" THEN 3 ELSE 1)..Len(p) : p[i] \in Seps

\* C18: for every virtual path p under src,
\* bms_path_graft(bms_path_graft(p, src, dest), dest, src) is p, and when p is
\* src, bms_path_graft(p, src, dest) is dest.
C18_GraftBack ==
    (Called("bms_path_graft") /\ StartsWith(call.args[1], call.args[2])) =>
        /\ call.err = NoError
        /\ bms_path_graft(call.ret, call.args[3], call.args[2])
               = [err |-> NoError, path |-> call.args[1]]
        /\ call.args[1] = call.args[2] => call.ret = call.args[3]

\* a virtual path is absolute when it begins with a separator or a drive designator
BeginsAbsolute(p) == p[1] \in Seps \/ (Len(p) >= 2 /\ p[2] = ":")

\* C19: bms_path_graft(path, src, dst) raises the error for paths of
\* different kinds whenever one of path and src is absolute and the other
\* relative, and returns no path then.
C19_GraftMixedKinds ==
    (Called("bms_path_graft") /\ BeginsAbsolute(call.args[1]) # BeginsAbsolute(call.args[2])) =>
        /\ call.err = "ValueError: absolute and relative"
        /\ call.ret = <<>>

\* a relative path has been grafted from an absolute src that is a prefix of
\* it but for the leading separator
C19_Witness ==
    /\ Called("bms_path_graft")
    /\ ~BeginsAbsolute(call.args[1]) /\ BeginsAbsolute(call.args[2])
    /\ Tail(call.args[2]) # <<>> /\ StartsWith(call.args[1], Tail(call.args[2]))

\* the virtual path ret names the folder that contains the folder p names; a
\* lone separator names the folder without drive and without segments
ContainingFolder(ret, p) ==
    LET par == PathParent(Path(DropLast(p)))
    IN  IF Len(ret) = 1 THEN par.drv = <<>> /\ par.parts = <<>>
        ELSE Path(DropLast(ret)) = par

RECURSIVE Climbs(_, _)
\* bms_path_dirname applied again and again from p raises within n applications
Climbs(p, n) ==
    IF n = 0 THEN FALSE
    ELSE \A r \in {bms_path_dirname(p)} : r.err = "LastDirectoryError" \/ Climbs(r.path, n - 1)

\* C20: bms_path_dirname(p) raises LastDirectoryError exactly when p is the
\* filesystem root or a drive root; for every other folder path it returns
\* the folder that contains p, ending in the separator p ends in; and applied
\* again and again from any folder path it raises after finitely many steps.
C20_DirnameStopsAtRoots ==
    Called("bms_path_dirname") =>
        /\ call.err = "LastDirectoryError" <=> IsRootPath(call.args[1])
        /\ call.err \in {NoError, "LastDirectoryError"}
        /\ call.err = NoError =>
               /\ call.ret[Len(call.ret)] = call.args[1][Len(call.args[1])]
               /\ ContainingFolder(call.ret, call.args[1])
        /\ Climbs(call.args[1], Len(call.args[1]))

\* bms_path_dirname has been applied to a path an earlier helper returned
\* for a folder on a drive, and has returned the drive root
C20_Witness ==
    /\ Called("bms_path_dirname") /\ call.err = NoError
    /\ call.args[1] \notin BmsPaths
    /\ IsRootPath(call.ret)
    /\ Len(call.ret) > 1

\* the batch has been started
Started == batch.pc # "idle"

\* the index the connection sees is the one committed before the batch
RolledBack ==
    /\ folder = batch.db0.folder
    /\ song = batch.db0.song
    /\ batch.db = batch.db0

C15_DryRunAborts ==
    (Started /\ batch.dry_run) =>
        /\ dirs = batch.dirs0
        /\ bmsroot = batch.saved0
        /\ batch.saved = batch.saved0
        /\ batch.db = batch.db0
        /\ batch.pc # "committed"
        /\ batch.pc \in {"failed", "aborted"} => RolledBack
        /\ batch.pc = "aborted" =>
               /\ batch.moved = SubfolderNames(batch.dirs0, batch.src)
               /\ batch.err = "RuntimeError: Dry run"

\* a dry run over two subfolders has moved both in the index and was aborted
C15_Witness ==
    /\ Started /\ batch.dry_run /\ batch.pc = "aborted"
    /\ Cardinality(batch.moved) >= 2

\* the separator that is not sep
OtherSep(sep) == IF sep = BS THEN FS ELSE BS

\* the pieces of a virtual path between its separators
SegmentsOf(p) == SplitSegs(p, <<>>)

\* a relative filesystem path whose ".." steps leave nothing of it
NormalizesToEmpty(p) == ~PathIsAbsolute(p) /\ NormParts(p.parts, <<>>) = <<>>

\* C21: bms_path_make rejects a relative path that normalizes to the empty
\* path with the invalid-path error; every other path is returned as a
\* non-empty string that ends with the requested separator, has no
\* occurrence of the other separator and no "." or ".." segment, and the
\* installation root is returned as the separator alone.
C21_MakeWellFormed ==
    Called("bms_path_make") =>
        IF NormalizesToEmpty(call.args[1])
        THEN call.err = "ValueError: Invalid path"
        ELSE /\ call.err = NoError
             /\ call.ret # <<>>
             /\ call.ret[Len(call.ret)] = call.args[2]
             /\ \A i \in DOMAIN call.ret : call.ret[i] # OtherSep(call.args[2])
             /\ \A k \in DOMAIN SegmentsOf(call.ret) :
                    SegmentsOf(call.ret)[k] \notin {<<".">>, <<".", ".">>}
             /\ Resolve(call.args[1]) = BMSPATH => call.ret = <<call.args[2]>>

\* bms_path_make has returned a path of several segments in the "\\"
\* convention for an absolute path with a ".." step
C21_Witness ==
    /\ Called("bms_path_make") /\ call.err = NoError
    /\ call.args[2] = BS
    /\ PathIsAbsolute(call.args[1])
    /\ \E k \in DOMAIN call.args[1].parts : call.args[1].parts[k] = <<".", ".">>
    /\ Len(SegmentsOf(call.ret)) >= 3

\* the absolute form of the path crc32 is given
AbsoluteForm(path) == to_absolute(Path(path))

\* the parent directories of the root directories of a list, a relative
\* root directory taken under the installation root
ParentsOfRoots(root_dirs) ==
    {PathParent(PathJoin(BMSPATH, Path(root_dirs[k]))) : k \in DOMAIN root_dirs}

\* C22: the identity of a path is the sentinel whenever the absolute form of
\* the path is the parent directory of a configured root directory, whatever
\* the characters of the path; the identity of any other path is the same
\* for every list of root directories.
C22_SentinelAboveRoots ==
    Called("bms_path_crc32") =>
        IF AbsoluteForm(DropLast(call.args[1])) \in ParentsOfRoots(call.args[2])
        THEN call.ret = ROOT_FOLDER_CRC
        ELSE \A root_dirs \in RootDirLists :
                 AbsoluteForm(DropLast(call.args[1])) \notin ParentsOfRoots(root_dirs) =>
                     call.ret = bms_path_crc32(call.args[1], root_dirs)

\* the identity of a folder inside the installation was asked of a
\* calculator whose relative root directory lies directly inside that folder
C22_Witness ==
    /\ Called("bms_path_crc32")
    /\ call.ret = ROOT_FOLDER_CRC
    /\ Len(call.args[1]) > 1
    /\ ~is_absolute(call.args[1])
    /\ \E k \in DOMAIN call.args[2] : ~is_absolute(call.args[2][k])

\* a number below 2^32 as its two 16-bit halves
Halves(hi, lo) == [hi |-> hi, lo |-> lo]

\* bit i (1 = least significant) of a number given by its halves
HalfBit(n, i) == IF i <= 16 THEN BitOf(n.lo, i) ELSE BitOf(n.hi, i - 16)

\* the number a byte is XORed as: b itself below 128, (b - 256) mod 2^32 =
\* 0xFFFF0000 + (0x10000 + b - 256) from 128 on
XoredAs(b) == IF b >= 128 THEN Halves(65535, 65536 + b - 256) ELSE Halves(0, b)

\* 0xEDB88320
Polynomial == Halves(60856, 33568)

\* the exclusive or of two bits
XorBit(x, y) == (x + y) % 2

\* a hexadecimal string filled up to 8 digits with zeros on the left
ZeroFilled(h) == [k \in 1..(8 - Len(h)) |-> "0"] \o h

\* C23: the register of the checksum is a 32-bit value at every step; it
\* starts as 0xFFFFFFFF; each byte below 128 is XORed as its unsigned value
\* and each byte from 128 on as (byte - 256) mod 2^32; 8 rounds follow each
\* byte, each a shift to the right, XORed with 0xEDB88320 when the bit
\* shifted out was set; the result is the complement of the final register
\* in 32 bits as 1 to 8 lowercase hexadecimal digits, without zeros in front.
C23_ChecksumSteps ==
    Called("crc32") =>
        /\ Len(call.crc) = 32
        /\ \A i \in 1..32 : call.crc[i] \in {0, 1}
        /\ call.step = "start" => \A i \in 1..32 : call.crc[i] = 1
        /\ call.step = "xor" =>
               \A i \in 1..32 :
                   call.crc[i] = XorBit(call.prev[i], HalfBit(XoredAs(call.b), i))
        /\ call.step = "shift" =>
               \A i \in 1..32 :
                   call.crc[i] = XorBit(IF i < 32 THEN call.prev[i + 1] ELSE 0,
                                        call.prev[1] * HalfBit(Polynomial, i))
        /\ call.shifts = 8 * call.read - call.rounds
        /\ call.step = "return" =>
               /\ call.read = Len(Encode(call.args[1])) + 2
               /\ Len(call.ret) \in 1..8
               /\ \A k \in DOMAIN call.ret : \E v \in 0..15 : HexDigits[v + 1] = call.ret[k]
               /\ Len(call.ret) > 1 => call.ret[1] # "0"
               /\ \A i \in 1..32 : RegOfHex(ZeroFilled(call.ret))[i] = 1 - call.crc[i]
               /\ call.ret = crc32_compute(call.args[1])

\* the checksum of "c" followed by an accented letter, whose bytes are above
\* 127, has been returned with 7 digits: 277fbcd
C23_Witness ==
    /\ Called("crc32") /\ call.step = "return"
    /\ \E k \in DOMAIN call.args[1] : \E j \in DOMAIN Utf8(call.args[1][k]) :
           Utf8(call.args[1][k])[j] >= 128
    /\ call.ret = <<"2", "7", "7", "f", "b", "c", "d">>

\* C24: Move(src, dest) and Delete(src) end their walk over the folder
\* records on every index, also when dest lies inside the subtree of src and
\* when an earlier Move left placeholder records: the recursion never runs
\* until the interpreter cuts it with RecursionError.
C24_WalksTerminate ==
    last.op \in {"Move", "Delete"} => last.err # "RecursionError"

\* the errors of the three stages of an orchestrating operation
EngineErrors == {"ValueError: no entry", "ValueError: multiple entries", "RecursionError"}

FsErrors == {"OSError", "shutil.Error: into itself"}

ListErrors == {"ValueError: not found in database"}

\* the index as the engine operation of the last orchestrating operation leaves it
IndexMutation ==
    CASE last.op = "AddRoot" -> db_add_root_folder(last.folder, last.song, last.src)
      [] last.op = "MoveFolder" ->
             db_move_folder(last.folder, last.song, rootdirs, last.src, last.dest, 1)
      [] last.op = "DeleteFolder" ->
             db_delete_folder(last.folder, last.song, rootdirs, last.src, 1)

\* the index holds the mutation of the last orchestrating operation
IndexMutated == \A r \in {IndexMutation} : folder = r.folder /\ song = r.song

\* C25: AddRoot, MoveFolder and DeleteFolder mutate the index first, act on
\* the filesystem next and update the root-directory list last: when the
\* index mutation fails neither directories nor list have changed; when the
\* filesystem action fails the list is unchanged and the index mutation is
\* in the open transaction; when the list update fails both have been done.
C25_IndexThenDiskThenList ==
    last.op \in {"AddRoot", "MoveFolder", "DeleteFolder"} =>
        /\ last.err \in EngineErrors => (dirs = last.dirs /\ bmsroot = last.bmsroot)
        /\ last.err \in FsErrors => (bmsroot = last.bmsroot /\ IndexMutated)
        /\ last.err \in ListErrors => (dirs # last.dirs /\ IndexMutated)

\* shutil.move has refused to move a directory into itself after the index
\* had been rewritten
C25_Witness ==
    /\ last.op = "MoveFolder" /\ last.err = "shutil.Error: into itself"
    /\ folder # last.folder
    /\ bmsroot = last.bmsroot

\* the last operation found one of the directories it requires missing, or
\* one it requires absent present
PreconditionViolated ==
    \/ last.op = "AddRoot" /\ bms_path_absolute(last.src) \in last.dirs
    \/ last.op = "MoveFolder" /\ bms_path_absolute(last.src) \notin last.dirs
    \/ last.op = "MoveFolder" /\ bms_path_absolute(last.dest) \in last.dirs
    \/ last.op = "DeleteFolder" /\ bms_path_absolute(last.src) \notin last.dirs

\* C26: AddRoot on a path that exists, MoveFolder with a src that is not a
\* directory or a dest that exists, and DeleteFolder of a src that is not a
\* directory fail on their assertion before any mutation: the index, the
\* directories and the root-directory list are as they were.
C26_PreconditionsFirst ==
    PreconditionViolated =>
        /\ last.err = "AssertionError"
        /\ folder = last.folder
        /\ song = last.song
        /\ dirs = last.dirs
        /\ bmsroot = last.bmsroot

\* MoveFolder was refused for a src with a record and child folders because
\* the directory of dest exists
C26_Witness ==
    /\ last.op = "MoveFolder" /\ last.src # last.dest
    /\ bms_path_absolute(last.src) \in last.dirs
    /\ bms_path_absolute(last.dest) \in last.dirs
    /\ Len(RowsAt(last.folder, last.src)) = 1
    /\ ChildPaths(last.folder, identity(last.src)) # <<>>
    /\ last.err = "AssertionError"

\* no two rows of a folder table have the same path
OnePerPath(fs) == \A k \in DOMAIN fs : Len(RowsAt(fs, fs[k].path)) = 1

RootRecords == {k \in DOMAIN folder : folder[k].parent = ROOT_FOLDER_CRC}

\* C28: after an AddRoot or a MoveFolder of the session, the identity the
\* session's calculator computes is the sentinel for the parent path of every
\* folder that is root-parented now, and for no path on account of a folder
\* that is no longer root-parented.
C28_IdentityFollowsRoots ==
    last.op \in {"AddRoot", "MoveFolder"} =>
        /\ \A k \in RootRecords :
               identity(bms_path_dirname(folder[k].path).path) = ROOT_FOLDER_CRC
        /\ \A j \in DOMAIN last.folder :
               identity(bms_path_dirname(last.folder[j].path).path) = ROOT_FOLDER_CRC =>
                   \E k \in RootRecords :
                       bms_path_dirname(folder[k].path) = bms_path_dirname(last.folder[j].path)

\* path names src or a folder below src
InSubtree(path, src) == path = src \/ Below(path, src)

\* C29: Move(src, dest) changes the subtree of src alone: every folder record
\* whose path is neither src nor below src, and every song record that lies
\* in no such folder, is after the call what it was before (path, hashes and
\* title); no song record is added or removed; and every folder record added
\* is a placeholder for an ancestor of dest that had no record.  This holds
\* as well when the identity of src is the sentinel.
C29_MoveFrame ==
    (last.op = "Move" /\ last.src # last.dest) =>
        /\ Len(folder) >= Len(last.folder)
        /\ \A k \in DOMAIN last.folder :
               ~InSubtree(last.folder[k].path, last.src) => folder[k] = last.folder[k]
        /\ Len(song) = Len(last.song)
        /\ \A k \in DOMAIN last.song :
               ~InSubtree(SongDir(last.song[k].path), last.src) => song[k] = last.song[k]
        /\ \A k \in (Len(last.folder) + 1)..Len(folder) :
               /\ folder[k].path \in AncestorsOf(last.dest)
               /\ RowsAt(last.folder, folder[k].path) = <<>>

\* a folder whose identity is the sentinel, because a root lies directly in
\* it, has been moved: its record was rewritten while other roots exist
C29_Witness ==
    /\ last.op = "Move" /\ last.src # last.dest
    /\ identity(last.src) = ROOT_FOLDER_CRC
    /\ Len(RowsAt(last.folder, last.src)) = 1
    /\ RowsAt(folder, last.src) = <<>>
    /\ \E k \in DOMAIN last.folder :
           /\ last.folder[k].parent = ROOT_FOLDER_CRC
           /\ ~InSubtree(last.folder[k].path, last.src)

\* C30: in a Move(src, dest) that returns, on an index with consistent
\* parent-hash links, the record of src is at dest before the child folders
\* are relocated, so no recursive Move inserts a placeholder record (the
\* records added are those the walk from dest itself creates) and no record
\* that was below src ends with the sentinel as parent-hash.
C30_ChildrenFindDest ==
    (Completed("Move") /\ last.src # last.dest /\ Consistent(last.folder)) =>
        /\ Len(folder) = Len(find_and_create_parents(last.folder, rootdirs, last.dest).folder)
        /\ \A k \in DOMAIN last.folder :
               Below(last.folder[k].path, last.src) =>
                   \A j \in DOMAIN folder :
                       folder[j].path
                           = bms_path_graft(last.folder[k].path, last.src, last.dest).path
                           => folder[j].parent # ROOT_FOLDER_CRC

====
